---- MODULE Spec2Model ----
(***************************************************************************)
(* Model of proxy/src/control/destination/mod.rs: the Resolver handle, the *)
(* ResolveRequest queue shared with the background task, the per-          *)
(* resolution update channel, the Arc/Weak liveness token, and the         *)
(* Discover adapter Resolution::poll.                                      *)
(*                                                                         *)
(* Ids 1..MaxRes name the resolve calls in call order: id i stands for the *)
(* update channel, the Arc<()> and the Responder/Resolution pair that the  *)
(* i-th call of resolve allocates.                                         *)
(***************************************************************************)
EXTENDS Integers, Sequences, FiniteSets, TLC

\* ---------------------------------------------------------------- bounds
MaxRes == 2          \* resolve calls explored
MaxLoad == 4         \* resolve calls plus Updates accepted, all together

MaxHandles == 2      \* Resolver handles: the one new() returns and its clones
Ids == 1..MaxRes

\* ---------------------------------------------------------------- values
Authorities == {"svc.ns:80", "web.ns:8080"}
Addrs == {"10.0.0.1:80", "10.0.0.2:80"}

\* Option<T>: None is the empty tuple, Some(x) the one-element tuple.
None == <<>>
Some(x) == <<x>>

\* DstLabels: a string-keyed map, here a set of <<key, value>> pairs.
as_map_get(labels, key) ==
    IF \E kv \in labels : kv[1] = key
    THEN Some((CHOOSE kv \in labels : kv[1] = key)[2])
    ELSE None

no_metadata_tls == [dst_labels |-> None, supports_tls |-> TRUE]
no_metadata == [dst_labels |-> None, supports_tls |-> FALSE]

\* impl Default for Metadata
default == no_metadata


from_labels_key_present(dst_labels) ==
    LET supports_tls ==
            IF dst_labels = None THEN FALSE
            ELSE as_map_get(dst_labels[1], "meshed") # None
    IN  [dst_labels |-> dst_labels, supports_tls |-> supports_tls]
from_labels(dst_labels) ==
    LET supports_tls ==
            IF dst_labels = None THEN FALSE
            ELSE LET value == as_map_get(dst_labels[1], "meshed")
                 IN  IF value = None THEN FALSE ELSE value[1] = "true"
    IN  [dst_labels |-> dst_labels, supports_tls |-> supports_tls]

MeshedLabels == {<<"meshed", "true">>}

Metas == {no_metadata, from_labels(Some(MeshedLabels))}

\* enum Update
Insert(addr, meta) == [type |-> "Insert", addr |-> addr, meta |-> meta]
Remove(addr) == [type |-> "Remove", addr |-> addr]
ChangeMetadata(addr, meta) == [type |-> "ChangeMetadata", addr |-> addr, meta |-> meta]

\* The Updates the background task sends: every variant, both addresses, with
\* and without labels.
Updates ==
    { Insert("10.0.0.1:80", no_metadata),
      Insert("10.0.0.2:80", from_labels(Some(MeshedLabels))),
      ChangeMetadata("10.0.0.1:80", from_labels(Some(MeshedLabels))),
      Remove("10.0.0.1:80"),
      Remove("10.0.0.2:80") }

\* Endpoint::new(addr, dst_labels)
EndpointNew(addr, dst_labels) == [address |-> addr, dst_labels |-> dst_labels]

\* Result<T, E>
Ok(v) == [ok |-> TRUE, value |-> v]
Err(e) == [ok |-> FALSE, err |-> e]

\* Bind implementations supplied by the consumer.  IdentityBind always
\* succeeds; StrictBind refuses, with two different BindErrors, endpoints
\* without labels and endpoints on the second address; RefuseBind refuses
\* every endpoint.
Binds == {"IdentityBind", "StrictBind"}
AllBinds == Binds \cup {"RefuseBind"}

bind(b, endpoint) ==
    IF b = "IdentityBind" THEN Ok([bound_by |-> b, endpoint |-> endpoint])
    ELSE IF b = "RefuseBind" THEN Err(<<"BindError", "Refused">>)
    ELSE IF endpoint.dst_labels = None THEN Err(<<"BindError", "NoLabels">>)
    ELSE IF endpoint.address = "10.0.0.2:80" THEN Err(<<"BindError", "Refused">>)
    ELSE Ok([bound_by |-> b, endpoint |-> endpoint])

\* ------------------------------------------------ futures::sync::mpsc
\* An unbounded channel: its buffer, the number of live senders, whether the
\* receiver is alive, and whether the receiving task is parked on it (it
\* polled an empty channel and waits to be notified).
unbounded == [queue |-> <<>>, senders |-> 1, rx_alive |-> TRUE, parked |-> FALSE]

\* An unbounded sender never waits for capacity.
CanSendBounded(ch) == Len(ch.queue) < 1
CanSend(ch) == TRUE

\* UnboundedSender::unbounded_send: Err(SendError(msg)) once the receiver is
\* gone; else the message is appended and the parked receiver is notified.
unbounded_send_lost(ch, msg) ==
    IF ch.rx_alive THEN [res |-> Ok(<<>>), ch |-> ch]
    ELSE [res |-> Err(msg), ch |-> ch]
unbounded_send_silent(ch, msg) ==
    IF ch.rx_alive
    THEN [res |-> Ok(<<>>),
          ch |-> [ch EXCEPT !.queue = Append(@, msg), !.parked = FALSE]]
    ELSE [res |-> Ok(<<>>), ch |-> ch]
unbounded_send_one_slot(ch, msg) ==
    IF ch.rx_alive /\ ch.queue = <<>>
    THEN [res |-> Ok(<<>>), ch |-> [ch EXCEPT !.queue = Append(@, msg), !.parked = FALSE]]
    ELSE [res |-> Err(msg), ch |-> ch]
unbounded_send_no_notify(ch, msg) ==
    IF ch.rx_alive
    THEN [res |-> Ok(<<>>), ch |-> [ch EXCEPT !.queue = Append(@, msg)]]
    ELSE [res |-> Err(msg), ch |-> ch]
unbounded_send(ch, msg) ==
    IF ch.rx_alive
    THEN [res |-> Ok(<<>>),
          ch |-> [ch EXCEPT !.queue = Append(@, msg), !.parked = FALSE]]
    ELSE [res |-> Err(msg), ch |-> ch]

\* Stream::poll of UnboundedReceiver: buffered messages first, then
\* Ready(None) once every sender is gone; otherwise the task is parked and the
\* poll is NotReady.
NotReady == [async |-> "NotReady"]
Ready(v) == [async |-> "Ready", item |-> v]

rx_poll_lifo(ch) ==
    IF ch.queue # <<>>
    THEN [up |-> Ready(Some(ch.queue[Len(ch.queue)])),
          ch |-> [ch EXCEPT !.queue = SubSeq(@, 1, Len(@) - 1)]]
    ELSE IF ch.senders = 0 THEN [up |-> Ready(None), ch |-> ch]
    ELSE [up |-> NotReady, ch |-> [ch EXCEPT !.parked = TRUE]]
rx_poll_eager_close(ch) ==
    IF ch.queue # <<>>
    THEN [up |-> Ready(Some(Head(ch.queue))), ch |-> [ch EXCEPT !.queue = Tail(@)]]
    ELSE [up |-> Ready(None), ch |-> ch]
rx_poll_peek(ch) ==
    IF ch.queue # <<>>
    THEN [up |-> Ready(Some(Head(ch.queue))), ch |-> ch]
    ELSE IF ch.senders = 0 THEN [up |-> Ready(None), ch |-> ch]
    ELSE [up |-> NotReady, ch |-> [ch EXCEPT !.parked = TRUE]]
rx_poll(ch) ==
    IF ch.queue # <<>>
    THEN [up |-> Ready(Some(Head(ch.queue))), ch |-> [ch EXCEPT !.queue = Tail(@)]]
    ELSE IF ch.senders = 0 THEN [up |-> Ready(None), ch |-> ch]
    ELSE [up |-> NotReady, ch |-> [ch EXCEPT !.parked = TRUE]]

\* Dropping the last sender closes the channel and notifies the receiver; the
\* buffer stays readable.
drop_sender(ch) == [ch EXCEPT !.senders = @ - 1, !.parked = FALSE]

\* Dropping the receiver closes the channel and discards what is buffered.
drop_receiver_open(ch) == [ch EXCEPT !.parked = FALSE]
drop_receiver(ch) == [ch EXCEPT !.rx_alive = FALSE, !.queue = <<>>, !.parked = FALSE]

\* ------------------------------------------------ std::sync::{Arc, Weak}
\* The liveness token is the strong count of the Arc<()>.
ArcNew == 1
\* Arc::downgrade leaves the strong count alone.
ArcCloneStrong(strong) == strong + 1
ArcDowngrade(strong) == strong
\* Dropping one strong reference.
ArcDrop(strong) == strong - 1
\* Weak::upgrade().is_some()
upgrade_is_some(strong) == strong > 0

\* ---------------------------------------------------------------- state
VARIABLES
    request_chan,    \* the ResolveRequest channel made by new()
    update_chan,     \* update_chan[i]: the Update channel made by the i-th resolve
    active,          \* active[i]: strong count of the i-th Arc<()>
    resolution,      \* resolution[i]: the Resolution returned by the i-th resolve
    bg_responders,   \* ResolveRequests the background task has dequeued and holds
    sent,            \* sent[i]: Updates the channel of i accepted, in send order
    outcomes,        \* outcomes[i]: what the polls of i returned (NotReady excepted)
    bind_calls,      \* bind_calls[i]: invocations of Bind::bind by polls of i
    observed,        \* failures handed to callers so far, beside poll's
                     \* outcomes: <<"resolve_panic", 0>> when a resolve
                     \* panicked, <<"send_error", i>> when a send on Responder i
                     \* returned Err(SendError)
    issued,          \* issued[i]: the Resolver handle the i-th resolve went through
    dequeued,        \* Responders of the ResolveRequests the background task
                     \* received, in the order it received them
    labels_arg,      \* the Option<DstLabels> a Metadata constructor is given
    metadata         \* None, or Some of the Metadata last constructed and
                     \* the constructor that made it

vars == <<request_chan, update_chan, active, resolution, bg_responders,
          sent, outcomes, bind_calls, observed, issued, dequeued,
          labels_arg, metadata>>

\* struct Responder { update_tx, active }: Responder i owns the sender of
\* update_chan[i] and a Weak to active[i].
Responder(i) == [update_tx |-> i, active |-> i]

\* struct ResolveRequest { authority, responder }
ResolveRequestDefaultAuthority(authority, responder) ==
    [authority |-> "svc.ns:80", responder |-> responder]
ResolveRequest(authority, responder) ==
    [authority |-> authority, responder |-> responder]

\* struct Resolution<B> { update_rx, _active, bind }
ResolutionOnFirstChannel(i, b) ==
    [update_rx |-> 1, _active |-> i, bind |-> b, state |-> "live"]
Resolution(i, b) == [update_rx |-> i, _active |-> i, bind |-> b, state |-> "live"]

\* Responder::is_active
is_active(responder) == upgrade_is_some(active[responder.active])

\* new(): one request channel shared by the Resolver and the background task.
Init ==
    /\ request_chan = unbounded
    /\ update_chan = <<>>
    /\ active = <<>>
    /\ resolution = <<>>
    /\ bg_responders = {}
    /\ sent = <<>>
    /\ outcomes = <<>>
    /\ bind_calls = <<>>
    /\ observed = {}
    /\ issued = <<>>
    /\ dequeued = <<>>
    /\ labels_arg = None
    /\ metadata = None

\* ------------------------------------------------ Resolution::poll
\* tower_discover::Change
ChangeInsertUnbound(key, service) ==
    [type |-> "Insert", key |-> key,
     service |-> [bound_by |-> "none", endpoint |-> service.endpoint]]
ChangeInsert(key, service) == [type |-> "Insert", key |-> key, service |-> service]
ChangeRemove(key) == [type |-> "Remove", key |-> key]

\* What Discover::poll gives its caller: Ok(Async::NotReady),
\* Ok(Async::Ready(change)), Err(()) or the panic of expect().
PollNotReady == [tag |-> "NotReady"]
PollReady(change) == [tag |-> "Ready", change |-> change]
PollErr(e) == [tag |-> "Err", err |-> e]
PollPanic == [tag |-> "Panic", msg |-> "destination stream must be infinite"]

\* .map_err(|_| ()): the BindError is replaced by the unit value.
map_err_keep(e) == e
map_err_unit(e) == <<>>

\* The match on the Update received (lines 202-213): the value returned and
\* the number of bind() calls made.
poll_update_patch_metadata(update, b) ==
    IF update.type \in {"Insert", "ChangeMetadata"}
    THEN LET endpoint == EndpointNew(update.addr, update.meta.dst_labels)
             service == bind(b, endpoint)
         IN  IF service.ok
             THEN [ret |-> PollReady([type |-> update.type, key |-> update.addr,
                                      service |-> service.value]),
                   binds |-> 1]
             ELSE [ret |-> PollErr(map_err_unit(service.err)), binds |-> 1]
    ELSE [ret |-> PollReady(ChangeRemove(update.addr)), binds |-> 0]
poll_update_bind_remove(update, b) ==
    LET labels == IF update.type = "Remove" THEN None ELSE update.meta.dst_labels
        service == bind(b, EndpointNew(update.addr, labels))
    IN  IF ~service.ok
        THEN [ret |-> PollErr(map_err_unit(service.err)), binds |-> 1]
        ELSE IF update.type = "Remove"
        THEN [ret |-> PollReady(ChangeRemove(update.addr)), binds |-> 1]
        ELSE [ret |-> PollReady(ChangeInsert(update.addr, service.value)), binds |-> 1]
poll_update(update, b) ==
    IF update.type \in {"Insert", "ChangeMetadata"}
    THEN LET endpoint == EndpointNew(update.addr, update.meta.dst_labels)
             service == bind(b, endpoint)
         IN  IF service.ok
             THEN [ret |-> PollReady(ChangeInsert(update.addr, service.value)),
                   binds |-> 1]
             ELSE [ret |-> PollErr(map_err_unit(service.err)), binds |-> 1]
    ELSE [ret |-> PollReady(ChangeRemove(update.addr)), binds |-> 0]

\* One call of poll on a Resolution with update channel ch and Bind b: the
\* value returned, the channel afterwards and the number of bind() calls made.
\* try_ready! returns NotReady, expect() panics on None, and every arm of the
\* match returns, so the loop body runs once.
poll_requeue_failed(ch, b) ==
    LET r == rx_poll(ch)
    IN  IF r.up.async = "NotReady"
        THEN [ret |-> PollNotReady, ch |-> r.ch, binds |-> 0]
        ELSE IF r.up.item = None
        THEN [ret |-> PollPanic, ch |-> r.ch, binds |-> 0]
        ELSE LET m == poll_update(r.up.item[1], b)
             IN  [ret |-> m.ret, ch |-> IF m.ret.tag = "Err" THEN ch ELSE r.ch,
                  binds |-> m.binds]
poll_end_of_stream(ch, b) ==
    LET r == rx_poll(ch)
    IN  IF r.up.async = "NotReady"
        THEN [ret |-> PollNotReady, ch |-> r.ch, binds |-> 0]
        ELSE IF r.up.item = None
        THEN [ret |-> PollNotReady, ch |-> r.ch, binds |-> 0]
        ELSE LET m == poll_update(r.up.item[1], b)
             IN  [ret |-> m.ret, ch |-> r.ch, binds |-> m.binds]
poll(ch, b) ==
    LET r == rx_poll(ch)
    IN  IF r.up.async = "NotReady"
        THEN [ret |-> PollNotReady, ch |-> r.ch, binds |-> 0]
        ELSE IF r.up.item = None
        THEN [ret |-> PollPanic, ch |-> r.ch, binds |-> 0]
        ELSE LET m == poll_update(r.up.item[1], b)
             IN  [ret |-> m.ret, ch |-> r.ch, binds |-> m.binds]

\* ---------------------------------------------------------------- actions
\* #[derive(Clone)] struct Resolver { request_tx }: every Resolver handle is
\* one sender of the request channel, so the handles are 1..senders.
Handles == 1..request_chan.senders

\* Resolver::clone: one more sender of the same request channel.
clone_sender(ch) == [ch EXCEPT !.senders = @ + 1]
CloneResolver ==
    /\ request_chan.senders < MaxHandles
    /\ request_chan' = clone_sender(request_chan)
    /\ UNCHANGED <<update_chan, active, resolution, bg_responders, sent, outcomes,
                   bind_calls, observed, issued, dequeued, labels_arg, metadata>>

\* The resolve calls that returned and the Updates accepted so far.
RECURSIVE SumLen(_)
SumLen(seqs) == IF seqs = <<>> THEN 0 ELSE Len(Head(seqs)) + SumLen(Tail(seqs))
Load == Len(sent) + SumLen(sent)

\* Resolver::resolve(authority, bind).  A failed unbounded_send panics in
\* expect(): the unwinding drops the channel, the Arc and the request, and no
\* Resolution is returned.
ResolveVia(h, authority, b) ==
    /\ h \in Handles
    /\ CanSend(request_chan)
    /\ LET i == Len(resolution) + 1
           strong == ArcDowngrade(ArcNew)
           req == ResolveRequest(authority, Responder(i))
           s == unbounded_send(request_chan, req)
       IN  IF s.res.ok
           THEN /\ i <= MaxRes
                /\ Load < MaxLoad
                /\ request_chan' = s.ch
                /\ update_chan' = Append(update_chan, unbounded)
                /\ active' = Append(active, strong)
                /\ resolution' = Append(resolution, Resolution(i, b))
                /\ sent' = Append(sent, <<>>)
                /\ outcomes' = Append(outcomes, <<>>)
                /\ bind_calls' = Append(bind_calls, 0)
                /\ issued' = Append(issued, h)
                /\ UNCHANGED <<bg_responders, observed>>
           ELSE /\ observed' = observed \cup {<<"resolve_panic", 0>>}
                /\ UNCHANGED <<request_chan, update_chan, active, resolution,
                               bg_responders, sent, outcomes, bind_calls, issued>>
    /\ UNCHANGED <<dequeued, labels_arg, metadata>>

\* resolve through any of the Resolver handles there are.
Resolve(authority, b) == \E h \in Handles : ResolveVia(h, authority, b)

\* Resolution::poll on the i-th Resolution.
Poll(i) ==
    /\ i \in DOMAIN resolution
    /\ resolution[i].state = "live"
    /\ LET p == poll(update_chan[resolution[i].update_rx], resolution[i].bind)
       IN  /\ update_chan' = [update_chan EXCEPT ![resolution[i].update_rx] = p.ch]
           /\ bind_calls' = [bind_calls EXCEPT ![i] = @ + p.binds]
           /\ outcomes' = [outcomes EXCEPT
                  ![i] = IF p.ret.tag = "NotReady" THEN @ ELSE Append(@, p.ret)]
           /\ resolution' = [resolution EXCEPT
                  ![i].state = IF p.ret.tag = "Panic" THEN "panicked" ELSE @]
    /\ UNCHANGED <<request_chan, active, bg_responders, sent, observed>>
    /\ UNCHANGED <<issued, dequeued, labels_arg, metadata>>

\* drop(Resolution): its fields update_rx and _active are dropped.
DropResolutionCancels(i) ==
    /\ i \in DOMAIN resolution
    /\ resolution[i].state \in {"live", "panicked"}
    /\ LET Others(req) == req.responder.active # resolution[i]._active
       IN  request_chan' = [request_chan EXCEPT !.queue = SelectSeq(@, Others)]
    /\ update_chan' = [update_chan EXCEPT ![resolution[i].update_rx] = drop_receiver(@)]
    /\ active' = [active EXCEPT ![resolution[i]._active] = ArcDrop(@)]
    /\ resolution' = [resolution EXCEPT ![i].state = "dropped"]
    /\ UNCHANGED <<bg_responders, sent, outcomes, bind_calls, observed>>
    /\ UNCHANGED <<issued, dequeued, labels_arg, metadata>>
DropResolution(i) ==
    /\ i \in DOMAIN resolution
    /\ resolution[i].state \in {"live", "panicked"}
    /\ update_chan' = [update_chan EXCEPT ![resolution[i].update_rx] = drop_receiver(@)]
    /\ active' = [active EXCEPT ![resolution[i]._active] = ArcDrop(@)]
    /\ resolution' = [resolution EXCEPT ![i].state = "dropped"]
    /\ UNCHANGED <<request_chan, bg_responders, sent, outcomes, bind_calls, observed>>
    /\ UNCHANGED <<issued, dequeued, labels_arg, metadata>>

\* The background task, notified of a buffered ResolveRequest, takes it off
\* the request channel.
BgRecv ==
    /\ request_chan.rx_alive
    /\ request_chan.queue # <<>>
    /\ LET r == rx_poll(request_chan)
       IN  /\ request_chan' = r.ch
           /\ bg_responders' = bg_responders \cup {r.up.item[1]}
           /\ dequeued' = Append(dequeued, r.up.item[1].responder)
    /\ UNCHANGED <<update_chan, active, resolution, sent, outcomes, bind_calls, observed>>
    /\ UNCHANGED <<issued, labels_arg, metadata>>

\* The background task sends an Update through a Responder it holds.
BgSend(req, u) ==
    /\ req \in bg_responders
    /\ CanSend(update_chan[req.responder.update_tx])
    /\ LET i == req.responder.update_tx
           s == unbounded_send(update_chan[i], u)
       IN  /\ s.res.ok => Load < MaxLoad
           /\ update_chan' = [update_chan EXCEPT ![i] = s.ch]
           /\ sent' = [sent EXCEPT ![i] = IF s.res.ok THEN Append(@, u) ELSE @]
           /\ observed' = IF s.res.ok THEN observed
                           ELSE observed \cup {<<"send_error", i>>}
    /\ UNCHANGED <<request_chan, active, resolution, bg_responders, outcomes, bind_calls>>
    /\ UNCHANGED <<issued, dequeued, labels_arg, metadata>>

\* The background task checks Responder::is_active on a Responder it holds
\* and gives the Responder up once it reports inactivity.
BgIsActive(req) ==
    /\ req \in bg_responders
    /\ IF is_active(req.responder)
       THEN UNCHANGED <<bg_responders, update_chan>>
       ELSE /\ bg_responders' = bg_responders \ {req}
            /\ update_chan' = [update_chan EXCEPT
                   ![req.responder.update_tx] = drop_sender(@)]
    /\ UNCHANGED <<request_chan, active, resolution, sent, outcomes, bind_calls, observed>>
    /\ UNCHANGED <<issued, dequeued, labels_arg, metadata>>

\* The background task drops a Responder: its update_tx is dropped.
BgDropResponder(req) ==
    /\ req \in bg_responders
    /\ bg_responders' = bg_responders \ {req}
    /\ update_chan' = [update_chan EXCEPT ![req.responder.update_tx] = drop_sender(@)]
    /\ UNCHANGED <<request_chan, active, resolution, sent, outcomes, bind_calls, observed>>
    /\ UNCHANGED <<issued, dequeued, labels_arg, metadata>>

\* Responders still buffered in the request channel.
Queued == {request_chan.queue[k].responder.update_tx : k \in DOMAIN request_chan.queue}
Held == {req.responder.update_tx : req \in bg_responders}

\* The background task ends: its request receiver is dropped, which discards
\* the buffered ResolveRequests, and so are the Responders it holds.
BgTerminate ==
    /\ request_chan.rx_alive
    /\ request_chan' = drop_receiver(request_chan)
    /\ update_chan' = [i \in DOMAIN update_chan |->
                          IF i \in Queued \cup Held THEN drop_sender(update_chan[i])
                          ELSE update_chan[i]]
    /\ bg_responders' = {}
    /\ UNCHANGED <<active, resolution, sent, outcomes, bind_calls, observed>>
    /\ UNCHANGED <<issued, dequeued, labels_arg, metadata>>

Next ==
    \/ \E authority \in Authorities, b \in Binds : Resolve(authority, b)
    \/ \E i \in Ids : Poll(i)
    \/ \E i \in Ids : DropResolution(i)
    \/ BgRecv
    \/ \E req \in bg_responders, u \in Updates : BgSend(req, u)
    \/ \E req \in bg_responders : BgIsActive(req)
    \/ \E req \in bg_responders : BgDropResponder(req)
    \/ BgTerminate

Spec == Init /\ [][Next]_vars

\* The request path alone, with cloned Resolver handles: callers resolve
\* through any handle while the background task dequeues.
NextClones ==
    \/ CloneResolver
    \/ \E h \in 1..MaxHandles, authority \in Authorities, b \in Binds :
           ResolveVia(h, authority, b)
    \/ \E i \in Ids : DropResolution(i)
    \/ BgRecv
    \/ \E req \in bg_responders : BgIsActive(req)
    \/ \E req \in bg_responders : BgDropResponder(req)
    \/ BgTerminate

\* The background task is a spawned future: the executor runs it whenever
\* the request channel has notified it of a buffered request.
SpecClones == Init /\ [][NextClones]_vars /\ WF_vars(BgRecv)

\* The executor polls a task again once the task has been notified; a task
\* parked on its channel is polled again only after a send or the close
\* has notified it.
PollNotified(i) ==
    /\ i \in DOMAIN resolution
    /\ ~update_chan[resolution[i].update_rx].parked
    /\ Poll(i)

\* One Resolution and its Responder, from resolve to drop, with a consumer
\* that keeps polling.
NextPolled ==
    \/ \E authority \in Authorities, b \in AllBinds :
           resolution = <<>> /\ Resolve(authority, b)
    \/ \E i \in Ids : Poll(i)
    \/ \E i \in Ids : DropResolution(i)
    \/ BgRecv
    \/ \E req \in bg_responders, u \in Updates : BgSend(req, u)
    \/ \E req \in bg_responders : BgIsActive(req)
    \/ \E req \in bg_responders : BgDropResponder(req)
    \/ BgTerminate

SpecPolled == Init /\ [][NextPolled]_vars /\ \A i \in Ids : WF_vars(PollNotified(i))

\* ------------------------------------------------------- impl Metadata
\* Metadata::supports_tls and Metadata::dst_labels
supports_tls(m) == m.supports_tls
dst_labels(m) == m.dst_labels

\* DstLabels over a few keys and values: a map, so a key occurs at most once.
LabelKeys == {"meshed", "app", "tls"}
LabelValues == {"true", "false", "True"}
LabelMaps ==
    {L \in SUBSET (LabelKeys \X LabelValues) :
        \A p, q \in L : p[1] = q[1] => p = q}
OptLabels == {None} \cup {Some(L) : L \in LabelMaps}

\* A caller holds some Option<DstLabels> and has built no Metadata yet.
InitMeta ==
    /\ request_chan = unbounded
    /\ update_chan = <<>>
    /\ active = <<>>
    /\ resolution = <<>>
    /\ bg_responders = {}
    /\ sent = <<>>
    /\ outcomes = <<>>
    /\ bind_calls = <<>>
    /\ observed = {}
    /\ issued = <<>>
    /\ dequeued = <<>>
    /\ labels_arg \in OptLabels
    /\ metadata = None

\* What the three constructors leave alone.
MetaFrame ==
    UNCHANGED <<request_chan, update_chan, active, resolution, bg_responders,
                sent, outcomes, bind_calls, observed, issued, dequeued,
                labels_arg>>

FromLabels ==
    /\ metadata' = Some([ctor |-> "from_labels", value |-> from_labels(labels_arg)])
    /\ MetaFrame
NoMetadata ==
    /\ metadata' = Some([ctor |-> "no_metadata", value |-> no_metadata])
    /\ MetaFrame
Default ==
    /\ metadata' = Some([ctor |-> "default", value |-> default])
    /\ MetaFrame

NextMeta == FromLabels \/ NoMetadata \/ Default

SpecMeta == InitMeta /\ [][NextMeta]_vars

\* ================================================================ claims
Created == DOMAIN resolution
Dropped(i) == resolution[i].state = "dropped"

\* C1: for every pair created by resolve, in every reachable state (whatever
\* resolves, sends, polls and drops happened on this or other pairs),
\* is_active() on the Responder is true exactly while the paired Resolution
\* has not been dropped; a dropped Resolution stays dropped, so is_active()
\* never becomes true again.
C1_IsActiveWhileAlive ==
    /\ [](\A i \in Created : is_active(Responder(i)) <=> ~Dropped(i))
    /\ [][\A i \in Created : Dropped(i) => Dropped(i)' /\ ~is_active(Responder(i))']_vars

\* C1 witness: the background holds two Responders, the first Resolution has
\* been dropped after an Update was sent to it, the second is alive.
C1_Witness ==
    /\ Held = {1, 2}
    /\ Dropped(1) /\ ~is_active(Responder(1)) /\ sent[1] # <<>>
    /\ ~Dropped(2) /\ is_active(Responder(2))

\* C2: each resolve(authority, bind) made while the request receiver is alive
\* appends exactly one ResolveRequest to the request channel, carrying that
\* authority and the new Responder, whose is_active() is then true; no
\* buffered request, no existing pair and nothing the background holds changes.
C2_ResolveEnqueuesOne ==
    [][\A authority \in Authorities, b \in Binds :
         (request_chan.rx_alive /\ Resolve(authority, b)) =>
            LET i == Len(resolution) + 1
            IN  /\ request_chan'.queue =
                      Append(request_chan.queue,
                             [authority |-> authority,
                              responder |-> [update_tx |-> i, active |-> i]])
                /\ request_chan'.rx_alive /\ request_chan'.senders = request_chan.senders
                /\ Len(resolution') = i
                /\ upgrade_is_some(active'[i])
                /\ \A j \in Created :
                      /\ update_chan'[j] = update_chan[j]
                      /\ active'[j] = active[j]
                      /\ resolution'[j] = resolution[j]
                      /\ sent'[j] = sent[j]
                      /\ outcomes'[j] = outcomes[j]
                /\ bg_responders' = bg_responders]_vars

\* C2 witness: two resolve calls for different authorities have returned and
\* both requests are buffered, in call order, with active Responders.
C2_Witness ==
    /\ Len(request_chan.queue) = 2
    /\ request_chan.queue[1].authority = "web.ns:8080"
    /\ request_chan.queue[2].authority = "svc.ns:80"
    /\ \A k \in 1..2 : /\ request_chan.queue[k].responder = Responder(k)
                       /\ is_active(request_chan.queue[k].responder)

\* The outcomes of the polls of i that returned a change.
IsReady(o) == o.tag = "Ready"
Changes(i) == SelectSeq(outcomes[i], IsReady)

\* C3: with a Bind that always succeeds, the k-th poll that returns a change
\* returns the change for the k-th Update sent: an insert-change keyed by its
\* address for Insert and ChangeMetadata, a remove-change keyed by its address
\* for Remove.
C3_ChangesFollowSendOrder ==
    \A i \in Created :
        resolution[i].bind = "IdentityBind" =>
            /\ Len(Changes(i)) <= Len(sent[i])
            /\ \A k \in 1..Len(Changes(i)) :
                  /\ Changes(i)[k].change.key = sent[i][k].addr
                  /\ Changes(i)[k].change.type =
                        (IF sent[i][k].type = "Remove" THEN "Remove" ELSE "Insert")

\* C3 witness: Insert(A, M1), ChangeMetadata(A, M2), Remove(A) were sent and
\* three polls returned insert A, insert A, remove A.
C3_Witness ==
    \E i \in Created :
        /\ resolution[i].bind = "IdentityBind"
        /\ sent[i] = << Insert("10.0.0.1:80", no_metadata),
                        ChangeMetadata("10.0.0.1:80", from_labels(Some(MeshedLabels))),
                        Remove("10.0.0.1:80") >>
        /\ Len(Changes(i)) = 3
        /\ Changes(i)[1].change.type = "Insert" /\ Changes(i)[1].change.key = "10.0.0.1:80"
        /\ Changes(i)[2].change.type = "Insert" /\ Changes(i)[2].change.key = "10.0.0.1:80"
        /\ Changes(i)[3] = PollReady(ChangeRemove("10.0.0.1:80"))

\* Whether Bind b refuses the endpoint built from Update u.
BindFails(b, u) ==
    /\ u.type \in {"Insert", "ChangeMetadata"}
    /\ ~bind(b, [address |-> u.addr, dst_labels |-> u.meta.dst_labels]).ok

\* C4: the poll that receives an Insert or ChangeMetadata whose endpoint Bind
\* refuses returns the discovery error and no change, and the error is the
\* unit value whatever the BindError was.
C4_BindFailureIsOpaqueError ==
    \A i \in Created :
        \A k \in 1..Len(outcomes[i]) :
            (k <= Len(sent[i]) /\ BindFails(resolution[i].bind, sent[i][k])) =>
                outcomes[i][k] = [tag |-> "Err", err |-> <<>>]

\* C4 witness: two polls of one Resolution failed on two different BindErrors
\* and returned the same error.
C4_Witness ==
    \E i \in Created :
        /\ Len(sent[i]) = 2 /\ Len(outcomes[i]) = 2
        /\ BindFails(resolution[i].bind, sent[i][1])
        /\ BindFails(resolution[i].bind, sent[i][2])
        /\ bind(resolution[i].bind, EndpointNew(sent[i][1].addr, sent[i][1].meta.dst_labels)).err
             # bind(resolution[i].bind, EndpointNew(sent[i][2].addr, sent[i][2].meta.dst_labels)).err
        /\ outcomes[i][1] = outcomes[i][2]
        /\ outcomes[i][1].tag = "Err"

\* C5: once the sender of a live Resolution's update channel is gone, the
\* buffered Updates are still delivered and the poll that finds the channel
\* empty panics; poll never returns an end-of-stream value: every outcome is a
\* change, the discovery error or the panic, and the panic comes last, after
\* every Update sent.
C5_ClosedChannelPanics ==
    \A i \in Created :
        /\ (resolution[i].state = "live" /\ update_chan[i].senders = 0) =>
              LET p == poll(update_chan[i], resolution[i].bind)
              IN  IF update_chan[i].queue = <<>>
                  THEN p.ret.tag = "Panic"
                  ELSE p.ret.tag \in {"Ready", "Err"}
        /\ \A k \in 1..Len(outcomes[i]) :
              /\ outcomes[i][k].tag \in {"Ready", "Err", "Panic"}
              /\ outcomes[i][k].tag = "Panic" =>
                    /\ k = Len(outcomes[i])
                    /\ k = Len(sent[i]) + 1
                    /\ update_chan[i].senders = 0
                    /\ resolution[i].state \in {"panicked", "dropped"}
        /\ (resolution[i].state # "dropped" /\ update_chan[i].senders = 0
              /\ Len(outcomes[i]) = Len(sent[i]) + 1) =>
                 resolution[i].state = "panicked"

\* C5 witness: two Updates were buffered, the Responder was dropped, two polls
\* delivered the Updates and the third panicked.
C5_Witness ==
    \E i \in Created :
        /\ Len(sent[i]) = 2
        /\ Len(outcomes[i]) = 3
        /\ outcomes[i][3].tag = "Panic"
        /\ resolution[i].state = "panicked"

\* C6: a resolve made after the request receiver was dropped panics and
\* returns no Resolution: the call can be made, it leaves no new Resolution
\* and nothing buffered, a panic is only ever seen with the receiver gone, and
\* every Resolution that exists had its request enqueued (its Responder is
\* buffered, held by the background, or was dropped by it).
C6_ResolveAfterReceiverDropPanics ==
    /\ <<"resolve_panic", 0>> \in observed => ~request_chan.rx_alive
    /\ \A i \in Created : update_chan[i].senders = 1 <=> i \in Queued \cup Held
    /\ ~request_chan.rx_alive =>
          /\ request_chan.queue = <<>>
          /\ \A authority \in Authorities, b \in Binds :
                /\ ENABLED Resolve(authority, b)
                /\ ~ENABLED (Resolve(authority, b) /\
                             (resolution' # resolution \/ request_chan' # request_chan
                              \/ <<"resolve_panic", 0>> \notin observed'))

\* C6 witness: a Resolution exists, the background task has ended and a later
\* resolve panicked.
C6_Witness ==
    /\ <<"resolve_panic", 0>> \in observed
    /\ ~request_chan.rx_alive
    /\ Len(resolution) = 1

\* C7: a poll on a live Resolution whose update channel is open and empty
\* returns NotReady: it appends no outcome (no change, no error), calls Bind
\* zero times, and leaves the buffer, the liveness token, the Resolution and
\* every other pair as they are; it only parks the polling task.
C7_EmptyOpenPollSuspends ==
    \A i \in Created :
        (resolution[i].state = "live" /\ update_chan[i].senders > 0
           /\ update_chan[i].queue = <<>>) =>
            /\ ENABLED Poll(i)
            /\ ~ENABLED (Poll(i) /\
                         (\/ outcomes' # outcomes
                          \/ bind_calls' # bind_calls
                          \/ active' # active
                          \/ resolution' # resolution
                          \/ update_chan' # [update_chan EXCEPT ![i].parked = TRUE]
                          \/ request_chan' # request_chan
                          \/ sent' # sent))

\* C7 witness: a live Resolution delivered an Update, polled its open channel
\* again while it was empty, and is parked.
C7_Witness ==
    \E i \in Created :
        /\ resolution[i].state = "live"
        /\ update_chan[i].parked
        /\ update_chan[i].queue = <<>> /\ update_chan[i].senders = 1
        /\ Len(outcomes[i]) = 1 /\ bind_calls[i] = 1

\* C8: end to end, with the identity Bind and a background that sends
\* Insert("10.0.0.1:80", no_metadata) first, the first poll that returns
\* anything returns the insert-change for that address bound by that Bind; and
\* once the Resolution is dropped the Responder's is_active() is false.
C8_EndToEnd ==
    \A i \in Created :
        (resolution[i].bind = "IdentityBind" /\ sent[i] # <<>>
           /\ sent[i][1] = Insert("10.0.0.1:80", no_metadata)) =>
            /\ outcomes[i] # <<>> =>
                  outcomes[i][1] =
                     [tag |-> "Ready",
                      change |-> [type |-> "Insert", key |-> "10.0.0.1:80",
                                  service |-> [bound_by |-> "IdentityBind",
                                               endpoint |-> [address |-> "10.0.0.1:80",
                                                             dst_labels |-> <<>>]]]]
            /\ Dropped(i) => ~is_active(Responder(i))

\* C8 witness: the request for "svc.ns:80" was dequeued, the one Insert was
\* sent and polled, the Resolution was dropped, and the Responder the
\* background still holds is inactive.
C8_Witness ==
    \E req \in bg_responders :
        LET i == req.responder.update_tx
        IN  /\ req.authority = "svc.ns:80"
            /\ resolution[i].bind = "IdentityBind"
            /\ sent[i] = <<Insert("10.0.0.1:80", no_metadata)>>
            /\ Len(outcomes[i]) = 1 /\ outcomes[i][1].tag = "Ready"
            /\ Dropped(i)
            /\ ~is_active(req.responder)

\* C9 as stated: after its Resolution has been dropped, a send through a
\* Responder is still accepted, so no send is ever refused.
C9_SendAfterDropAccepted ==
    \A i \in Created : <<"send_error", i>> \notin observed

\* C9 amended: after a Resolution has been dropped, its update channel is
\* closed and empty, every send through its Responder returns Err(SendError)
\* and queues nothing; a send is refused only in that case.
C9_SendAfterDropRefused ==
    \A i \in Created :
        /\ Dropped(i) =>
              /\ update_chan[i].queue = <<>>
              /\ \A u \in Updates :
                    /\ ~unbounded_send(update_chan[i], u).res.ok
                    /\ unbounded_send(update_chan[i], u).ch = update_chan[i]
        /\ <<"send_error", i>> \in observed => Dropped(i)

\* C9 witness: the background sent through a Responder it holds after the
\* Resolution was dropped, and the send was refused.
C9_Witness ==
    \E i \in Held :
        /\ Dropped(i)
        /\ <<"send_error", i>> \in observed
        /\ update_chan[i].queue = <<>>

\* C10: while the request receiver is alive, resolve is enabled in every
\* state within the explored load, however many requests are still buffered
\* and whether or not the background has taken any.
C10_ResolveNeverBlocks ==
    (request_chan.rx_alive /\ Len(resolution) < MaxRes /\ Load < MaxLoad) =>
        \A authority \in Authorities, b \in Binds : ENABLED Resolve(authority, b)

\* C10 witness: a request is buffered, the background has taken nothing, and
\* a further resolve is enabled.
C10_Witness ==
    /\ request_chan.rx_alive
    /\ Len(request_chan.queue) = 1
    /\ bg_responders = {}
    /\ ENABLED Resolve("svc.ns:80", "IdentityBind")

\* C11: with cloned Resolver handles resolving in any interleaving, the
\* requests that entered the shared queue are exactly the completed resolve
\* calls, one each and in call order: what the background task has dequeued,
\* followed by what is still buffered, is the Responders 1..n without a gap
\* or a repeat.  No request is dequeued twice, two requests issued through
\* one handle are dequeued in the order they were issued, and a background
\* task that keeps consuming dequeues every request.
Entered == dequeued \o [k \in DOMAIN request_chan.queue |-> request_chan.queue[k].responder]
DequeuedAt(i) == {k \in DOMAIN dequeued : dequeued[k] = [update_tx |-> i, active |-> i]}

C11_ClonedHandlesShareOneQueue ==
    /\ [](/\ Len(issued) = Len(resolution)
          /\ \A i \in DOMAIN issued : issued[i] \in 1..request_chan.senders
          /\ Len(Entered) <= Len(resolution)
          /\ request_chan.rx_alive => Len(Entered) = Len(resolution)
          /\ \A k \in DOMAIN Entered : Entered[k] = [update_tx |-> k, active |-> k]
          /\ \A i \in Created : Cardinality(DequeuedAt(i)) <= 1
          /\ \A i, j \in Created :
                (i < j /\ issued[i] = issued[j] /\ DequeuedAt(j) # {}) =>
                    \E ki \in DequeuedAt(i) : \A kj \in DequeuedAt(j) : ki < kj)
    /\ [][Len(dequeued') >= Len(dequeued)
          /\ SubSeq(dequeued', 1, Len(dequeued)) = dequeued]_vars
    /\ \A i \in Ids :
          (i \in Created) ~> (DequeuedAt(i) # {} \/ ~request_chan.rx_alive)

\* The clone issued the first request and the original handle the second;
\* the background task dequeued both, in that order.
C11_Witness ==
    /\ request_chan.senders = 2
    /\ issued = <<2, 1>>
    /\ dequeued = <<[update_tx |-> 1, active |-> 1], [update_tx |-> 2, active |-> 2]>>
    /\ request_chan.queue = <<>>
    /\ request_chan.rx_alive

\* C12: from_labels(L).supports_tls() is true exactly when L is present and
\* maps "meshed" to the string "true" (false when L is absent, when the key
\* is absent and for any other value), and dst_labels() gives L back.
BuiltBy(ctor) == metadata # None /\ metadata[1].ctor = ctor

C12_FromLabelsMeshedTrue ==
    BuiltBy("from_labels") =>
        /\ supports_tls(metadata[1].value) =
               (labels_arg # None /\ <<"meshed", "true">> \in labels_arg[1])
        /\ labels_arg = None => ~supports_tls(metadata[1].value)
        /\ (labels_arg # None /\ \A v \in LabelValues : <<"meshed", v>> \notin labels_arg[1])
              => ~supports_tls(metadata[1].value)
        /\ \A v \in LabelValues \ {"true"} :
              (labels_arg # None /\ <<"meshed", v>> \in labels_arg[1])
                  => ~supports_tls(metadata[1].value)
        /\ dst_labels(metadata[1].value) = labels_arg

C12_Witness ==
    /\ labels_arg = <<{<<"meshed", "true">>, <<"app", "false">>}>>
    /\ BuiltBy("from_labels")
    /\ supports_tls(metadata[1].value)
    /\ dst_labels(metadata[1].value) = <<{<<"meshed", "true">>, <<"app", "false">>}>>

\* C13: no_metadata() has no labels and does not support TLS; default() and
\* from_labels(None) build the same Metadata.
C13_NoMetadataIsDefault ==
    /\ BuiltBy("no_metadata") =>
          /\ dst_labels(metadata[1].value) = <<>>
          /\ supports_tls(metadata[1].value) = FALSE
          /\ metadata[1].value = default
          /\ metadata[1].value = from_labels(<<>>)
    /\ BuiltBy("default") =>
          metadata[1].value = [dst_labels |-> <<>>, supports_tls |-> FALSE]
    /\ (BuiltBy("from_labels") /\ labels_arg = <<>>) =>
          metadata[1].value = [dst_labels |-> <<>>, supports_tls |-> FALSE]

C13_Witness ==
    /\ BuiltBy("no_metadata")
    /\ metadata[1].value = [dst_labels |-> <<>>, supports_tls |-> FALSE]
    /\ labels_arg = <<{<<"meshed", "true">>}>>

\* C14: every poll that returned a change or a bind error took exactly one
\* Update off the channel and called Bind at most once.  A failed update is
\* consumed: what is still buffered is the Updates sent after it, the poll
\* that failed delivered nothing else, and the Resolution stays live, so the
\* k-th poll that returned is the poll of the k-th Update sent, failed or not.
IsDelivery(o) == o.tag \in {"Ready", "Err"}
Delivered(i) == SelectSeq(outcomes[i], IsDelivery)

C14_FailedPollConsumesOne ==
    \A i \in Created :
        LET polled == Delivered(i)
            n == Len(polled)
        IN  /\ n <= Len(sent[i])
            /\ bind_calls[i] <= n
            /\ ~Dropped(i) =>
                  update_chan[i].queue = SubSeq(sent[i], n + 1, Len(sent[i]))
            /\ \A k \in 1..n :
                  /\ polled[k].tag = "Err" <=> BindFails(resolution[i].bind, sent[i][k])
                  /\ polled[k].tag = "Ready" => polled[k].change.key = sent[i][k].addr
            /\ (n > 0 /\ outcomes[i][Len(outcomes[i])].tag = "Err" /\ ~Dropped(i)) =>
                  /\ resolution[i].state = "live"
                  /\ ENABLED Poll(i)

C14_Witness ==
    \E i \in Created :
        /\ resolution[i].bind = "StrictBind"
        /\ sent[i] = << [type |-> "Insert", addr |-> "10.0.0.2:80",
                         meta |-> [dst_labels |-> <<{<<"meshed", "true">>}>>,
                                   supports_tls |-> TRUE]],
                        [type |-> "Remove", addr |-> "10.0.0.1:80"] >>
        /\ outcomes[i] = << [tag |-> "Err", err |-> <<>>],
                            [tag |-> "Ready",
                             change |-> [type |-> "Remove", key |-> "10.0.0.1:80"]] >>
        /\ bind_calls[i] = 1
        /\ update_chan[i].queue = <<>>

\* C15: when the consumer keeps polling, every Update a live Resolution's
\* channel accepted is eventually consumed by a poll, which returns it as a
\* change or as a discovery error (unless the Resolution is dropped first);
\* a parked poll has an empty channel, because every send wakes it.
C15_SentIsEventuallyPolled ==
    /\ [](\A i \in Created : update_chan[i].parked => update_chan[i].queue = <<>>)
    /\ \A i \in Ids, k \in 1..MaxLoad :
          (i \in Created /\ Len(sent[i]) >= k)
              ~> (i \in Created /\ (Dropped(i) \/ Len(Delivered(i)) >= k))

\* Both Updates sent were returned by polls, and the poll after them parked
\* on the empty channel, whose sender is still open.
C15_Witness ==
    \E i \in Created :
        /\ ~Dropped(i)
        /\ Len(sent[i]) = 2
        /\ Len(Delivered(i)) = 2
        /\ update_chan[i].parked
        /\ update_chan[i].senders = 1

\* C16: every resolve call makes its own update channel and its own token.
\* The Updates sent on Responder i are the ones Resolution i has been given
\* or still has buffered, and no other Resolution gets them; a send on
\* Responder i, a poll of Resolution i and the drop of Resolution i leave the
\* channel, the token and the history of every other pair as they were, and
\* is_active() of a Responder follows its own Resolution alone.
OthersChange(i) ==
    \E j \in Created \ {i} :
        \/ update_chan'[j] # update_chan[j]
        \/ active'[j] # active[j]
        \/ resolution'[j] # resolution[j]
        \/ sent'[j] # sent[j]
        \/ outcomes'[j] # outcomes[j]

C16_ResolutionsAreIsolated ==
    /\ \A i, j \in Created :
          i # j => /\ resolution[i].update_rx # resolution[j].update_rx
                   /\ resolution[i]._active # resolution[j]._active
    /\ \A i \in Created :
          /\ is_active(Responder(i)) <=> ~Dropped(i)
          /\ ~Dropped(i) =>
                Len(Delivered(i)) + Len(update_chan[i].queue) = Len(sent[i])
          /\ Dropped(i) => Len(Delivered(i)) <= Len(sent[i])
          /\ ~ENABLED (DropResolution(i) /\ OthersChange(i))
          /\ ~ENABLED (Poll(i) /\ OthersChange(i))
    /\ \A req \in bg_responders, u \in Updates :
          ~ENABLED (BgSend(req, u) /\ OthersChange(req.responder.update_tx))

\* Two Resolutions of one authority: each was sent one Update, the first was
\* dropped and the second still holds its own Update and is still active.
C16_Witness ==
    /\ Created = {1, 2}
    /\ \A req \in bg_responders : req.authority = "svc.ns:80"
    /\ Held = {1, 2}
    /\ sent[1] = <<[type |-> "Remove", addr |-> "10.0.0.1:80"]>>
    /\ sent[2] = <<[type |-> "Remove", addr |-> "10.0.0.2:80"]>>
    /\ Dropped(1)
    /\ ~is_active(Responder(1))
    /\ ~Dropped(2)
    /\ is_active(Responder(2))
    /\ update_chan[2].queue = <<[type |-> "Remove", addr |-> "10.0.0.2:80"]>>

\* C17: the poll that takes a Remove(a) returns the remove-change with key a
\* and does not call Bind, so it succeeds under a Bind that refuses every
\* endpoint; the poll that takes an Insert or a ChangeMetadata calls Bind
\* exactly once, on the endpoint made of that Update's address and labels.
Bound(i) == {k \in 1..Len(Delivered(i)) : sent[i][k].type # "Remove"}

C17_RemoveNeverBinds ==
    \A i \in Created :
        /\ bind_calls[i] = Cardinality(Bound(i))
        /\ \A k \in 1..Len(Delivered(i)) :
              LET u == sent[i][k]
                  o == Delivered(i)[k]
              IN  IF u.type = "Remove"
                  THEN o = [tag |-> "Ready",
                            change |-> [type |-> "Remove", key |-> u.addr]]
                  ELSE o.tag = "Ready" =>
                         /\ o.change.type = "Insert"
                         /\ o.change.key = u.addr
                         /\ o.change.service.endpoint =
                                [address |-> u.addr, dst_labels |-> u.meta.dst_labels]
        /\ (resolution[i].state = "live" /\ update_chan[i].queue # <<>>) =>
              LET calls == IF Head(update_chan[i].queue).type = "Remove" THEN 0 ELSE 1
              IN  ~ENABLED (Poll(i) /\ bind_calls'[i] # bind_calls[i] + calls)

C17_Witness ==
    \E i \in Created :
        /\ resolution[i].bind = "RefuseBind"
        /\ sent[i] = << [type |-> "ChangeMetadata", addr |-> "10.0.0.1:80",
                         meta |-> [dst_labels |-> <<{<<"meshed", "true">>}>>,
                                   supports_tls |-> TRUE]],
                        [type |-> "Remove", addr |-> "10.0.0.1:80"],
                        [type |-> "Remove", addr |-> "10.0.0.2:80"] >>
        /\ outcomes[i] = << [tag |-> "Err", err |-> <<>>],
                            [tag |-> "Ready",
                             change |-> [type |-> "Remove", key |-> "10.0.0.1:80"]],
                            [tag |-> "Ready",
                             change |-> [type |-> "Remove", key |-> "10.0.0.2:80"]] >>
        /\ bind_calls[i] = 1

\* C18: while Resolution i is alive, a send on Responder i is never made to
\* wait and is accepted whatever is pending: the Update goes to the back of
\* the buffer and the rest of the buffer is untouched.  With no poll the
\* buffer is everything sent so far, in send order; with polls it is what
\* was sent after the Updates the polls took, in send order.
SendRefusedOrMisplaced(i, u) ==
    \/ update_chan'[i].queue # Append(update_chan[i].queue, u)
    \/ sent'[i] # Append(sent[i], u)
    \/ observed' # observed

C18_LiveSendAlwaysAccepted ==
    \A i \in Created :
        ~Dropped(i) =>
            /\ CanSend(update_chan[i])
            /\ \A u \in Updates :
                  /\ unbounded_send(update_chan[i], u).res.ok
                  /\ unbounded_send(update_chan[i], u).ch.queue =
                         Append(update_chan[i].queue, u)
            /\ \A req \in bg_responders, u \in Updates :
                  req.responder.update_tx = i =>
                      /\ Load < MaxLoad => ENABLED BgSend(req, u)
                      /\ ~ENABLED (BgSend(req, u) /\ SendRefusedOrMisplaced(i, u))
            /\ Len(Delivered(i)) = 0 => update_chan[i].queue = sent[i]
            /\ Len(Delivered(i)) <= Len(sent[i])
            /\ update_chan[i].queue =
                   SubSeq(sent[i], Len(Delivered(i)) + 1, Len(sent[i]))

\* Three Updates pending on a Resolution that has not been polled.
C18_Witness ==
    \E i \in Created :
        /\ ~Dropped(i)
        /\ outcomes[i] = <<>>
        /\ Len(sent[i]) = 3
        /\ update_chan[i].queue = sent[i]
        /\ sent[i][1] # sent[i][2]
        /\ i \in Held

\* C19: dropping a Resolution changes its own update channel and its own
\* token and nothing else: no message is sent, the request queue and what
\* the background task holds are as before.  A request whose Resolution was
\* dropped before the background task dequeued it is still buffered, is
\* still delivered, and its Responder reports is_active() == false from the
\* first check on.
DropSeenElsewhere(i) ==
    \/ request_chan' # request_chan
    \/ bg_responders' # bg_responders
    \/ dequeued' # dequeued
    \/ sent' # sent
    \/ outcomes' # outcomes
    \/ observed' # observed
    \/ \E j \in Created \ {i} :
          update_chan'[j] # update_chan[j] \/ active'[j] # active[j]

ReceivedAsActive(i) ==
    /\ [authority |-> request_chan.queue[1].authority,
        responder |-> [update_tx |-> i, active |-> i]] \in bg_responders'
    /\ upgrade_is_some(active'[i])

C19_DropIsSilent ==
    \A i \in Created :
        /\ ~ENABLED (DropResolution(i) /\ DropSeenElsewhere(i))
        /\ (request_chan.rx_alive /\ DequeuedAt(i) = {}) => i \in Queued
        /\ (Dropped(i) /\ i \in Queued) =>
              /\ ~is_active(Responder(i))
              /\ request_chan.queue[1].responder.update_tx = i =>
                    /\ ENABLED BgRecv
                    /\ ~ENABLED (BgRecv /\ ReceivedAsActive(i))
        /\ \A req \in bg_responders :
              (req.responder.update_tx = i /\ Dropped(i)) =>
                  /\ ~is_active(req.responder)
                  /\ ENABLED BgIsActive(req)
                  /\ ~ENABLED (BgIsActive(req) /\ req \in bg_responders')

\* The first Resolution was dropped while its request is still at the head
\* of the request queue; the second is alive and queued behind it.
C19_Witness ==
    /\ Created = {1, 2}
    /\ Dropped(1)
    /\ ~Dropped(2)
    /\ request_chan.rx_alive
    /\ Len(request_chan.queue) = 2
    /\ request_chan.queue[1].responder = [update_tx |-> 1, active |-> 1]
    /\ ~is_active(request_chan.queue[1].responder)
    /\ is_active(request_chan.queue[2].responder)
    /\ dequeued = <<>>

\* C20: what a poll returns is a function of the one Update it takes and of
\* Bind's result for it; nothing taken earlier matters.  ChangeMetadata(a, m)
\* is answered as Insert(a, m) is, in every state; a ChangeMetadata or a
\* Remove for an address never inserted is emitted, and so is an Insert
\* repeated.
OutcomeOf(b, u) ==
    IF u.type = "Remove"
    THEN [tag |-> "Ready", change |-> [type |-> "Remove", key |-> u.addr]]
    ELSE LET service == bind(b, [address |-> u.addr, dst_labels |-> u.meta.dst_labels])
         IN  IF service.ok
             THEN [tag |-> "Ready",
                   change |-> [type |-> "Insert", key |-> u.addr,
                               service |-> service.value]]
             ELSE [tag |-> "Err", err |-> <<>>]

AsInsert(u) ==
    IF u.type = "ChangeMetadata"
    THEN [type |-> "Insert", addr |-> u.addr, meta |-> u.meta]
    ELSE u

C20_PollKeepsNoEndpointSet ==
    /\ \A a \in Addrs, m \in Metas, b \in AllBinds :
          poll_update(ChangeMetadata(a, m), b) = poll_update(Insert(a, m), b)
    /\ \A i \in Created :
          /\ \A k \in 1..Len(Delivered(i)) :
                Delivered(i)[k] = OutcomeOf(resolution[i].bind, AsInsert(sent[i][k]))
          /\ (resolution[i].state = "live" /\ update_chan[i].queue # <<>>) =>
                LET o == OutcomeOf(resolution[i].bind, AsInsert(Head(update_chan[i].queue)))
                IN  ~ENABLED (Poll(i) /\ outcomes'[i] # Append(outcomes[i], o))

\* A ChangeMetadata for an address never inserted came out as an
\* insert-change, and the same Insert sent twice came out twice.
C20_Witness ==
    \E i \in Created :
        /\ resolution[i].bind = "IdentityBind"
        /\ sent[i] = << [type |-> "ChangeMetadata", addr |-> "10.0.0.1:80",
                         meta |-> [dst_labels |-> <<{<<"meshed", "true">>}>>,
                                   supports_tls |-> TRUE]],
                        [type |-> "Insert", addr |-> "10.0.0.1:80",
                         meta |-> [dst_labels |-> <<>>, supports_tls |-> FALSE]],
                        [type |-> "Insert", addr |-> "10.0.0.1:80",
                         meta |-> [dst_labels |-> <<>>, supports_tls |-> FALSE]] >>
        /\ Len(outcomes[i]) = 3
        /\ \A k \in 1..3 : /\ outcomes[i][k].tag = "Ready"
                             /\ outcomes[i][k].change.type = "Insert"
                             /\ outcomes[i][k].change.key = "10.0.0.1:80"
        /\ outcomes[i][2] = outcomes[i][3]
====
